---- MODULE Spec2Model ----
(***************************************************************************)
(* Model of the two stream processors of the repository:                   *)
(*   - ModelClient.request / ModelClient._parse_response                   *)
(*     (src/phone_agent/model/client.py): the incremental splitter of a    *)
(*     streamed chat completion into thinking and action text;             *)
(*   - RealtimeASRClient.transcribe_once (src/phone_agent/asr.py): the     *)
(*     realtime transcription session with its callbacks, drive loop and   *)
(*     shutdown path.                                                      *)
(* Python strings are sequences of one-character strings.                  *)
(***************************************************************************)
EXTENDS Integers, Sequences, FiniteSets, TLC

VARIABLES
  pcR,       \* request(): "streaming", "finalized", "returned" or "raised"
  req,       \* request(): its locals
  response,  \* request(): the ModelResponse returned
  chunks,    \* the chunks the stream has yielded so far
  pc,        \* transcribe_once(): the line the main thread is at
  state,     \* transcribe_once(): the state dict shared with the callbacks
  stream,    \* transcribe_once(): the local 'stream' of the drive loop
  exc,       \* transcribe_once(): the exception propagating through finally
  handler,   \* the installed SIGINT handler
  svc,       \* the recognition service: "idle", "running", "stopped" or "failed"
  device,    \* the audio device: opened, how often each release ran on it, on_close calls
  calls,     \* how often recognition.stop() and the metrics line have run
  blocks,    \* audio blocks read so far
  events,    \* the results delivered to on_event so far
  result,    \* what transcribe_once() returned or raised
  failed     \* the last failure of stream.read or send_audio_frame in the drive loop

varsR == <<pcR, req, response, chunks>>
varsA == <<pc, state, stream, exc, handler, svc, device, calls, blocks, events, result, failed>>
vars == <<pcR, req, response, chunks,
          pc, state, stream, exc, handler, svc, device, calls, blocks, events, result,
          failed>>

(***************************************************************************)
(* Bounds of the model.                                                    *)
(***************************************************************************)
\* number of chunks the model service streams in one request
MaxChunks == 3
\* number of audio blocks the drive loop reads in one session
MaxBlocks == 2
\* number of results the recognition service delivers in one session
MaxEvents == 2
\* number of close callbacks the recognition service delivers in one session
MaxCloses == 2

(***************************************************************************)
(* String literals of client.py.                                           *)
(***************************************************************************)
FinishMarker == <<"f", "i", "n", "i", "s", "h", "(", "m", "e", "s", "s", "a", "g", "e", "=">>
DoMarker == <<"d", "o", "(", "a", "c", "t", "i", "o", "n", "=">>
AnswerTag == <<"<", "a", "n", "s", "w", "e", "r", ">">>
AnswerEndTag == <<"<", "/", "a", "n", "s", "w", "e", "r", ">">>
ThinkTag == <<"<", "t", "h", "i", "n", "k", ">">>
ThinkEndTag == <<"<", "/", "t", "h", "i", "n", "k", ">">>

\* action_markers, in declaration order
action_markers == <<FinishMarker, DoMarker>>

(***************************************************************************)
(* Python string primitives used by client.py and asr.py.                  *)
(***************************************************************************)
\* characters str.strip() removes
Whitespace == {" ", "\n", "\t"}

\* offsets (0-based) at which m occurs in s
Occurrences(s, m) ==
  {i \in 0..(Len(s) - Len(m)) : SubSeq(s, i + 1, i + Len(m)) = m}

\* m in s
Contains(s, m) == Occurrences(s, m) # {}

\* s.find(m) for a contained m
Find(s, m) == CHOOSE i \in Occurrences(s, m) : \A j \in Occurrences(s, m) : i <= j

\* s.split(m, 1)[0]
SplitBefore(s, m) == SubSeq(s, 1, Find(s, m))

\* s.split(m, 1)[1]
SplitAfter(s, m) == SubSeq(s, Find(s, m) + Len(m) + 1, Len(s))

\* m.startswith(t)
StartsWith(m, t) == Len(t) <= Len(m) /\ SubSeq(m, 1, Len(t)) = t

\* s[-n:] for n > 0
LastN(s, n) == IF Len(s) <= n THEN s ELSE SubSeq(s, Len(s) - n + 1, Len(s))

RECURSIVE LStrip(_)
LStrip(s) == IF s # <<>> /\ Head(s) \in Whitespace THEN LStrip(Tail(s)) ELSE s

RECURSIVE RStrip(_)
RStrip(s) ==
  IF s # <<>> /\ s[Len(s)] \in Whitespace THEN RStrip(SubSeq(s, 1, Len(s) - 1)) ELSE s

\* s.strip()
Strip(s) == RStrip(LStrip(s))

\* s.replace(m, "")
RECURSIVE Remove(_, _)
Remove(s, m) ==
  IF Contains(s, m) THEN SplitBefore(s, m) \o Remove(SplitAfter(s, m), m) ELSE s

\* "".join(parts)
RECURSIVE Concat(_)
Concat(parts) == IF parts = <<>> THEN <<>> ELSE Head(parts) \o Concat(Tail(parts))

(***************************************************************************)
(* ModelClient._parse_response                                             *)
(***************************************************************************)
\* a mutant of _parse_response: the closing answer tag is left in the action
_parse_response_KeepsEndTag(content) ==
  IF Contains(content, FinishMarker)
    THEN <<Strip(SplitBefore(content, FinishMarker)),
           FinishMarker \o SplitAfter(content, FinishMarker)>>
  ELSE IF Contains(content, DoMarker)
    THEN <<Strip(SplitBefore(content, DoMarker)),
           DoMarker \o SplitAfter(content, DoMarker)>>
  ELSE IF Contains(content, AnswerTag)
    THEN <<Strip(Remove(Remove(SplitBefore(content, AnswerTag), ThinkTag), ThinkEndTag)),
           Strip(SplitAfter(content, AnswerTag))>>
  ELSE <<<<>>, content>>

_parse_response(content) ==
  IF Contains(content, FinishMarker)
    THEN <<Strip(SplitBefore(content, FinishMarker)),
           FinishMarker \o SplitAfter(content, FinishMarker)>>
  ELSE IF Contains(content, DoMarker)
    THEN <<Strip(SplitBefore(content, DoMarker)),
           DoMarker \o SplitAfter(content, DoMarker)>>
  ELSE IF Contains(content, AnswerTag)
    THEN <<Strip(Remove(Remove(SplitBefore(content, AnswerTag), ThinkTag), ThinkEndTag)),
           Strip(Remove(SplitAfter(content, AnswerTag), AnswerEndTag))>>
  ELSE <<<<>>, content>>

(***************************************************************************)
(* The delta stream: what the chat service can send.                       *)
(***************************************************************************)
\* an attribute of a delta: absent/None, or a string
None == [some |-> FALSE, text |-> <<>>]
Some(s) == [some |-> TRUE, text |-> s]

\* an unset Optional[float] time mark
NoTime == -1

P_empty == <<>>
P_space == <<" ">>
P_ok == <<"o", "k", " ">>
P_do_head == <<"d", "o", "(", "a", "c", "t">>
P_do_tail == <<"i", "o", "n", "=", "x", ")">>
P_ok_do_head == <<"o", "k", " ", "d", "o", "(", "a", "c", "t">>
P_fin_head == <<"f", "i", "n", "i", "s", "h", "(", "m", "e", "s">>
P_fin_tail == <<"s", "a", "g", "e", "=", "y", ")">>
P_w1 == <<"I", " ", "w", "i", "l", "l", " ">>
P_w2 == <<"c", "h", "e", "c", "k", " ", "t", "h", "e", " ", "w", "e", "a", "t", "h", "e", "r", ".", "\n", "d", "o", "(", "a", "c", "t", "i", "o", "n", "=">>
P_w3 == <<"o", "p", "e", "n", "_", "a", "p", "p", "(", "'", "W", "e", "a", "t", "h", "e", "r", "'", ")", ")">>
P_tagged == <<"<", "t", "h", "i", "n", "k", ">", "o", "k", "<", "/", "t", "h", "i", "n", "k", ">", "<", "a", "n", "s", "w", "e", "r", ">", "t", "<", "/", "a", "n", "s", "w", "e", "r", ">">>
P_tap == <<"<", "t", "h", "i", "n", "k", ">", "o", "k", "<", "/", "t", "h", "i", "n", "k", ">", "<", "a", "n", "s", "w", "e", "r", ">", "t", "a", "p", "(", "x", "=", "1", "0", ",", "y", "=", "2", "0", ")", "<", "/", "a", "n", "s", "w", "e", "r", ">">>
P_both == <<"d", "o", "(", "a", "c", "t", "i", "o", "n", "=", "a", ")", "f", "i", "n", "i", "s", "h", "(", "m", "e", "s", "s", "a", "g", "e", "=", "b", ")">>
R_why == <<" ", "w", "h", "y", " ">>
R_so == <<"s", "o">>

\* content fragments the service may send
ContentPieces ==
  {P_empty, P_space, P_ok, P_do_head, P_do_tail, P_ok_do_head, P_fin_head,
   P_fin_tail, P_w1, P_w2, P_w3, P_tagged, P_tap, P_both}

\* the deltas (chunk.choices[0].delta) the service may send
Deltas ==
  [reasoning_content : {None}, reasoning : {None}, content : {Some(c) : c \in ContentPieces}]
  \cup [reasoning_content : {Some(R_why), Some(P_space)}, reasoning : {None}, content : {None}]
  \cup [reasoning_content : {None, Some(P_empty)}, reasoning : {Some(R_so)}, content : {None}]
  \cup [reasoning_content : {Some(R_why)}, reasoning : {Some(R_so)}, content : {Some(P_ok)}]
  \cup [reasoning_content : {None}, reasoning : {None}, content : {None}]

(***************************************************************************)
(* ModelClient.request: the per-chunk body of the loop over the stream and *)
(* the code after the loop, as functions of the locals of request().       *)
(* Elapsed wall-clock time is counted in chunks received.                   *)
(***************************************************************************)
\* the locals of request() before the loop (lines 46-49, 67-71)
InitLocals ==
  [raw_content |-> <<>>, raw_reasoning |-> <<>>, buffer |-> <<>>,
   in_action_phase |-> FALSE, first_token_received |-> FALSE,
   time_to_first_token |-> NoTime, time_to_thinking_end |-> NoTime,
   stdout |-> <<>>]

\* lines 82-84 and 91-93
MarkFirstToken(st, now) ==
  IF ~st.first_token_received
    THEN [st EXCEPT !.time_to_first_token = now, !.first_token_received = TRUE]
    ELSE st

\* line 80: getattr(delta, "reasoning_content", None) or getattr(delta, "reasoning", None)
ReasoningPiece(d) ==
  IF d.reasoning_content.some /\ d.reasoning_content.text # <<>>
    THEN d.reasoning_content
    ELSE d.reasoning

\* a mutant of HandleReasoning: the reasoning fragment is appended to the content too
HandleReasoning_IntoContent(st, d, now) ==
  LET r == ReasoningPiece(d) IN
  IF r.some /\ r.text # <<>>
    THEN [MarkFirstToken(st, now) EXCEPT
            !.raw_reasoning = @ \o r.text,
            !.raw_content = @ \o r.text,
            !.stdout = Append(@, <<"reasoning", r.text>>)]
    ELSE st

\* lines 80-86
HandleReasoning(st, d, now) ==
  LET r == ReasoningPiece(d) IN
  IF r.some /\ r.text # <<>>
    THEN [MarkFirstToken(st, now) EXCEPT
            !.raw_reasoning = @ \o r.text,
            !.stdout = Append(@, <<"reasoning", r.text>>)]
    ELSE st

\* lines 101-102: the first marker, in declaration order, that the buffer contains
FoundMarkers(buf) == {i \in 1..Len(action_markers) : Contains(buf, action_markers[i])}
FirstFoundMarker(buf) ==
  action_markers[CHOOSE i \in FoundMarkers(buf) : \A j \in FoundMarkers(buf) : i <= j]

\* line 116
is_p(buf) ==
  \E i \in 1..Len(action_markers) :
    StartsWith(action_markers[i], LastN(buf, Len(action_markers[i])))

\* lines 99-119: a content fragment received in the thinking phase
ScanBuffer(st, c_piece, now) ==
  LET buf == st.buffer \o c_piece IN
  IF FoundMarkers(buf) # {}
    THEN LET thinking_part == SplitBefore(buf, FirstFoundMarker(buf)) IN
         [st EXCEPT
            !.buffer = buf,
            !.stdout = (IF Strip(thinking_part) # <<>>
                          THEN Append(@, <<"thinking", thinking_part>>)
                          ELSE @) \o << <<"newline", <<"\n">> >> >>,
            !.in_action_phase = TRUE,
            !.time_to_thinking_end = now]
  ELSE IF ~is_p(buf)
    THEN [st EXCEPT !.buffer = <<>>, !.stdout = Append(@, <<"thinking", buf>>)]
  ELSE [st EXCEPT !.buffer = buf]

\* a mutant of HandleContent: raw_content is appended after the phase test
HandleContent_AppendAfterPhaseTest(st, d, now) ==
  IF ~d.content.some
    THEN st
    ELSE LET st1 == MarkFirstToken(st, now) IN
         IF st1.in_action_phase
           THEN st1
           ELSE ScanBuffer([st1 EXCEPT !.raw_content = @ \o d.content.text],
                           d.content.text, now)

\* lines 89-119
HandleContent(st, d, now) ==
  IF ~d.content.some
    THEN st
    ELSE LET st1 == [MarkFirstToken(st, now) EXCEPT !.raw_content = @ \o d.content.text] IN
         IF st1.in_action_phase
           THEN st1
           ELSE ScanBuffer(st1, d.content.text, now)

\* lines 77-119: the loop body for a chunk with choices
ProcessDelta(st, d, now) == HandleContent(HandleReasoning(st, d, now), d, now)

\* a mutant of FinalFlush: the buffer is printed whatever the phase
FinalFlush_IgnoresPhase(st) ==
  IF st.buffer # <<>>
    THEN [st EXCEPT !.stdout = Append(@, <<"thinking", st.buffer>>)]
    ELSE st

\* lines 121-122
FinalFlush(st) ==
  IF st.buffer # <<>> /\ ~st.in_action_phase
    THEN [st EXCEPT !.stdout = Append(@, <<"thinking", st.buffer>>)]
    ELSE st

\* a mutant of FinalThinking: the reasoning text never replaces the parsed thinking
FinalThinking_NeverOverride(st) == _parse_response(st.raw_content)[1]

\* lines 125-129, the thinking of the response
FinalThinking(st) ==
  IF Strip(st.raw_reasoning) # <<>>
    THEN Strip(st.raw_reasoning)
    ELSE _parse_response(st.raw_content)[1]

\* line 125, the action of the response
FinalAction(st) == _parse_response(st.raw_content)[2]

\* lines 134-141
MakeResponse(st, now) ==
  [thinking |-> FinalThinking(st), action |-> FinalAction(st),
   raw_content |-> st.raw_content,
   time_to_first_token |-> st.time_to_first_token,
   time_to_thinking_end |-> st.time_to_thinking_end,
   total_time |-> now]

\* the text printed on the thinking observer stream (lines 105, 118, 122)
RECURSIVE ThinkingText(_)
ThinkingText(out) ==
  IF out = <<>> THEN <<>>
  ELSE (IF Head(out)[1] = "thinking" THEN Head(out)[2] ELSE <<>>) \o ThinkingText(Tail(out))

(***************************************************************************)
(* ModelClient.request as a state machine over the stream.                 *)
(***************************************************************************)
NoChoices == [choices |-> <<>>]
WithDelta(d) == [choices |-> <<d>>]

NoResponse == [thinking |-> <<>>, action |-> <<>>, raw_content |-> <<>>,
               time_to_first_token |-> NoTime, time_to_thinking_end |-> NoTime,
               total_time |-> NoTime]

InitR ==
  /\ pcR = "streaming"
  /\ req = InitLocals
  /\ response = NoResponse
  /\ chunks = <<>>

\* lines 73-75: a chunk without choices is skipped
RecvNoChoices ==
  /\ pcR = "streaming"
  /\ Len(chunks) < MaxChunks
  /\ chunks' = Append(chunks, NoChoices)
  /\ UNCHANGED <<pcR, req, response>>
  /\ UNCHANGED varsA

\* lines 73-119: a chunk with a delta
RecvDelta(d) ==
  /\ pcR = "streaming"
  /\ Len(chunks) < MaxChunks
  /\ chunks' = Append(chunks, WithDelta(d))
  /\ req' = ProcessDelta(req, d, Len(chunks) + 1)
  /\ UNCHANGED <<pcR, response>>
  /\ UNCHANGED varsA

\* lines 121-129: the stream is exhausted
EndOfStream ==
  /\ pcR = "streaming"
  /\ req' = FinalFlush(req)
  /\ pcR' = "finalized"
  /\ UNCHANGED <<response, chunks>>
  /\ UNCHANGED varsA

\* lines 132-141: the metrics line is formatted and the response returned
ReturnResponse ==
  /\ pcR = "finalized"
  /\ req.time_to_first_token # NoTime
  /\ response' = MakeResponse(req, Len(chunks))
  /\ pcR' = "returned"
  /\ UNCHANGED <<req, chunks>>
  /\ UNCHANGED varsA

\* line 132: f"{time_to_first_token:.3f}" with time_to_first_token = None is a TypeError
MetricsFormatRaises ==
  /\ pcR = "finalized"
  /\ req.time_to_first_token = NoTime
  /\ pcR' = "raised"
  /\ UNCHANGED <<req, response, chunks>>
  /\ UNCHANGED varsA

NextR ==
  \/ RecvNoChoices
  \/ \E d \in Deltas : RecvDelta(d)
  \/ EndOfStream
  \/ ReturnResponse
  \/ MetricsFormatRaises

(***************************************************************************)
(* RealtimeASRClient.transcribe_once: the session state, the callbacks the *)
(* recognition service delivers from its own thread, the SIGINT handler,   *)
(* and the main thread with its drive loop and shutdown.                   *)
(***************************************************************************)
\* the texts a recognition result may carry
T_blank == <<" ">>
T_hi == <<" ", "h", "i", " ">>
T_yo == <<"y", "o">>

\* the results on_event may receive: get_sentence() is a dict with a "text"
\* key or not, carries a text, and is a sentence end or not.  The set has a
\* sentence end whose text strips to nothing, a partial and a final result
\* with the same text, a second final text, and a dict without "text"
Results ==
  [has_text : {TRUE}, text : {T_blank, T_hi, T_yo}, sentence_end : {TRUE}]
  \cup [has_text : {TRUE}, text : {T_hi}, sentence_end : {FALSE}]
  \cup [has_text : {FALSE}, text : {<<>>}, sentence_end : {FALSE}]

\* state["error"] = None
NoError == "None"
\* f"{request_id}: {msg_text}", never an empty string
ErrorText == "rid: msg"
\* result.get_request_id()
RequestId == "rid"

\* " ".join(parts)
RECURSIVE Join(_)
Join(parts) ==
  IF parts = <<>> THEN <<>>
  ELSE IF Len(parts) = 1 THEN Head(parts)
  ELSE Head(parts) \o <<" ">> \o Join(Tail(parts))

\* lines 48-57 and the state around the session before line 147
InitA ==
  /\ pc = "install"
  /\ state = [mic |-> FALSE, stream |-> FALSE, sentences |-> <<>>, last_text |-> <<>>,
              request_id |-> "", error |-> NoError, stopping |-> FALSE,
              stopped |-> FALSE]
  /\ stream = FALSE
  /\ exc = "none"
  /\ handler = "previous_handler"
  /\ svc = "idle"
  /\ device = [opened |-> FALSE, stream_released |-> 0, mic_terminated |-> 0, closes |-> 0]
  /\ calls = [stop |-> 0, metrics |-> 0]
  /\ blocks = 0
  /\ events = <<>>
  /\ result = [kind |-> "none", at |-> "none", text |-> <<>>]
  /\ failed = [op |-> "none", stop_pending |-> FALSE, says_stopped |-> FALSE]

\* the service delivers callbacks between recognition.start() and the end of
\* recognition.stop()
Delivering == svc = "running"

\* lines 60-70: the device is opened and stored; state holds TRUE for the handle
on_open ==
  /\ Delivering
  /\ ~device.opened
  /\ device' = [device EXCEPT !.opened = TRUE]
  /\ state' = [state EXCEPT !.mic = TRUE, !.stream = TRUE]
  /\ UNCHANGED <<pc, stream, exc, handler, svc, calls, blocks, events, result, failed>>

\* a mutant of on_close: the handles are not reset after the release
on_close_KeepsHandles ==
  /\ Delivering
  /\ device.closes < MaxCloses
  /\ device' = [device EXCEPT
                  !.closes = @ + 1,
                  !.stream_released = IF state.stream THEN @ + 1 ELSE @,
                  !.mic_terminated = IF state.mic THEN @ + 1 ELSE @]
  /\ UNCHANGED <<pc, state, stream, exc, handler, svc, calls, blocks, events, result, failed>>

\* lines 72-91
on_close ==
  /\ Delivering
  /\ device.closes < MaxCloses
  /\ device' = [device EXCEPT
                  !.closes = @ + 1,
                  !.stream_released = IF state.stream THEN @ + 1 ELSE @,
                  !.mic_terminated = IF state.mic THEN @ + 1 ELSE @]
  /\ state' = [state EXCEPT !.stream = FALSE, !.mic = FALSE]
  /\ UNCHANGED <<pc, stream, exc, handler, svc, calls, blocks, events, result, failed>>

\* lines 93-94
on_complete ==
  /\ Delivering
  /\ UNCHANGED vars

\* lines 96-101
on_error ==
  /\ Delivering
  /\ state' = [state EXCEPT !.error = ErrorText]
  /\ UNCHANGED <<pc, stream, exc, handler, svc, device, calls, blocks, events, result, failed>>

\* a mutant of SentencesAfter: the sentence is put in front
SentencesAfter_Prepend(sentences, text, sentence_end) ==
  IF sentence_end /\ text # <<>> THEN <<text>> \o sentences ELSE sentences

\* lines 111-113
SentencesAfter(sentences, text, sentence_end) ==
  IF sentence_end /\ text # <<>> THEN Append(sentences, text) ELSE sentences

\* lines 103-120
on_event(r) ==
  /\ Delivering
  /\ Len(events) < MaxEvents
  /\ events' = Append(events, r)
  /\ state' = IF r.has_text
                THEN LET text == Strip(r.text) IN
                     [state EXCEPT
                        !.last_text = IF text # <<>> THEN text ELSE @,
                        !.request_id = RequestId,
                        !.sentences = SentencesAfter(@, text, r.sentence_end)]
                ELSE state
  /\ UNCHANGED <<pc, stream, exc, handler, svc, device, calls, blocks, result, failed>>

\* lines 149-152: SIGINT arrives while the session's handler is installed
signal_handler ==
  /\ handler = "signal_handler"
  /\ state' = [state EXCEPT !.stopping = TRUE]
  /\ UNCHANGED <<pc, stream, exc, handler, svc, device, calls, blocks, events, result, failed>>

\* lines 147-154
InstallHandler ==
  /\ pc = "install"
  /\ handler' = "signal_handler"
  /\ pc' = "start"
  /\ UNCHANGED <<state, stream, exc, svc, device, calls, blocks, events, result, failed>>

\* line 155: recognition.start() connects; callbacks may be delivered from now on
StartBegins ==
  /\ pc = "start"
  /\ svc' = "running"
  /\ pc' = "starting"
  /\ UNCHANGED <<state, stream, exc, handler, device, calls, blocks, events, result, failed>>

\* line 155: recognition.start() returns
StartReturns ==
  /\ pc = "starting"
  /\ pc' = "loop"
  /\ UNCHANGED <<state, stream, exc, handler, svc, device, calls, blocks, events, result, failed>>

\* line 155: recognition.start() raises; the call is outside the try statement
StartRaises ==
  /\ pc = "starting"
  /\ svc' = "failed"
  /\ pc' = "raised"
  /\ result' = [kind |-> "StartError", at |-> "start", text |-> <<>>]
  /\ UNCHANGED <<state, stream, exc, handler, device, calls, blocks, events, failed>>

\* line 159: the loop ends on the stop flag
LoopStopping ==
  /\ pc = "loop"
  /\ state.stopping
  /\ pc' = "finally"
  /\ UNCHANGED <<state, stream, exc, handler, svc, device, calls, blocks, events, result, failed>>

\* lines 159-162: no stream, the loop goes to sleep
LoopSleep ==
  /\ pc = "loop"
  /\ ~state.stopping
  /\ ~state.stream
  /\ stream' = FALSE
  /\ pc' = "sleep"
  /\ UNCHANGED <<state, exc, handler, svc, device, calls, blocks, events, result, failed>>

\* lines 162-163: time.sleep(0.05) returns and the loop polls again
SleepReturns ==
  /\ pc = "sleep"
  /\ pc' = "loop"
  /\ UNCHANGED <<state, stream, exc, handler, svc, device, calls, blocks, events, result, failed>>

\* a mutant of LoopTakesStream: the stop flag is not tested by the loop condition
LoopTakesStream_IgnoresStop ==
  /\ pc = "loop"
  /\ state.stream
  /\ stream' = TRUE
  /\ pc' = "read"
  /\ UNCHANGED <<state, exc, handler, svc, device, calls, blocks, events, result, failed>>

\* lines 159-161: the stream handle is taken for a read
LoopTakesStream ==
  /\ pc = "loop"
  /\ ~state.stopping
  /\ state.stream
  /\ stream' = TRUE
  /\ pc' = "read"
  /\ UNCHANGED <<state, exc, handler, svc, device, calls, blocks, events, result, failed>>

\* line 164: stream.read returns a block; the device must not have been released
ReadReturns ==
  /\ pc = "read"
  /\ device.stream_released = 0
  /\ blocks < MaxBlocks
  /\ blocks' = blocks + 1
  /\ pc' = "send"
  /\ UNCHANGED <<state, stream, exc, handler, svc, device, calls, events, result, failed>>

\* a mutant of ReadRaises: the exception leaves the function without the finally clause
ReadRaises_NoFinally ==
  /\ pc = "read"
  /\ pc' = "raised"
  /\ result' = [kind |-> "ReadError", at |-> "loop", text |-> <<>>]
  /\ failed' = [op |-> "read", stop_pending |-> state.stopping, says_stopped |-> FALSE]
  /\ UNCHANGED <<state, stream, exc, handler, svc, device, calls, blocks, events>>

\* line 164: stream.read raises (device error, or the stream was closed)
ReadRaises ==
  /\ pc = "read"
  /\ exc' = "ReadError"
  /\ failed' = [op |-> "read", stop_pending |-> state.stopping, says_stopped |-> FALSE]
  /\ pc' = "finally"
  /\ UNCHANGED <<state, stream, handler, svc, device, calls, blocks, events, result>>

\* lines 164, 174-175: KeyboardInterrupt raised inside the try statement
ReadInterrupted ==
  /\ pc = "read"
  /\ state' = [state EXCEPT !.stopping = TRUE]
  /\ pc' = "finally"
  /\ UNCHANGED <<stream, exc, handler, svc, device, calls, blocks, events, result, failed>>

\* line 166: send_audio_frame returns
SendReturns ==
  /\ pc = "send"
  /\ pc' = "check"
  /\ UNCHANGED <<state, stream, exc, handler, svc, device, calls, blocks, events, result, failed>>

\* a mutant of SendRaises: the stop flag is not tested before the failure is swallowed
SendRaises_NoStopTest(says_stopped) ==
  /\ pc = "send"
  /\ exc' = IF says_stopped THEN "none" ELSE "SendError"
  /\ failed' = [op |-> "send", stop_pending |-> state.stopping, says_stopped |-> says_stopped]
  /\ pc' = "finally"
  /\ UNCHANGED <<state, stream, handler, svc, device, calls, blocks, events, result>>

\* lines 166-171: send_audio_frame raises; says_stopped: "stopped" is in the message
SendRaises(says_stopped) ==
  /\ pc = "send"
  /\ exc' = IF state.stopping /\ says_stopped THEN "none" ELSE "SendError"
  /\ failed' = [op |-> "send", stop_pending |-> state.stopping, says_stopped |-> says_stopped]
  /\ pc' = "finally"
  /\ UNCHANGED <<state, stream, handler, svc, device, calls, blocks, events, result>>

\* lines 172-173 with an error recorded
CheckErrorBreaks ==
  /\ pc = "check"
  /\ state.error # NoError
  /\ pc' = "finally"
  /\ UNCHANGED <<state, stream, exc, handler, svc, device, calls, blocks, events, result, failed>>

\* lines 172-173 with no error recorded
CheckErrorContinues ==
  /\ pc = "check"
  /\ state.error = NoError
  /\ pc' = "loop"
  /\ UNCHANGED <<state, stream, exc, handler, svc, device, calls, blocks, events, result, failed>>

\* line 177
RestoreHandler ==
  /\ pc = "finally"
  /\ handler' = "previous_handler"
  /\ pc' = "stop"
  /\ UNCHANGED <<state, stream, exc, svc, device, calls, blocks, events, result, failed>>

\* lines 178, 134-136: _stop_recognition up to the call of recognition.stop()
StopRecognition ==
  /\ pc = "stop"
  /\ state' = [state EXCEPT !.stopped = TRUE]
  /\ pc' = IF state.stopped THEN "exit" ELSE "stop_call"
  /\ UNCHANGED <<stream, exc, handler, svc, device, calls, blocks, events, result, failed>>

\* line 137: recognition.stop() returns; the service delivers nothing after it
RecognitionStopReturns ==
  /\ pc = "stop_call"
  /\ calls' = [calls EXCEPT !.stop = @ + 1]
  /\ svc' = "stopped"
  /\ pc' = "metrics"
  /\ UNCHANGED <<state, stream, exc, handler, device, blocks, events, result, failed>>

\* line 137: recognition.stop() raises, replacing any exception on its way out
RecognitionStopRaises ==
  /\ pc = "stop_call"
  /\ calls' = [calls EXCEPT !.stop = @ + 1]
  /\ svc' = "stopped"
  /\ exc' = "StopError"
  /\ pc' = "exit"
  /\ UNCHANGED <<state, stream, handler, device, blocks, events, result, failed>>

\* lines 138-145
PrintMetrics ==
  /\ pc = "metrics"
  /\ calls' = [calls EXCEPT !.metrics = @ + 1]
  /\ pc' = "exit"
  /\ UNCHANGED <<state, stream, exc, handler, svc, device, blocks, events, result, failed>>

\* the finally clause ends with an exception on its way out
FinallyReraises ==
  /\ pc = "exit"
  /\ exc # "none"
  /\ pc' = "raised"
  /\ result' = [kind |-> exc, at |-> "finally", text |-> <<>>]
  /\ UNCHANGED <<state, stream, exc, handler, svc, device, calls, blocks, events, failed>>

\* the finally clause ends normally
FinallyFallsThrough ==
  /\ pc = "exit"
  /\ exc = "none"
  /\ pc' = "post"
  /\ UNCHANGED <<state, stream, exc, handler, svc, device, calls, blocks, events, result, failed>>

\* a mutant of ShouldRaise: the error is raised only when there is no text
ShouldRaise_OnlyWithoutText(st) ==
  st.error # NoError /\ st.sentences = <<>> /\ st.last_text = <<>>

\* line 180
ShouldRaise(st) == st.error # NoError

\* lines 183-186
Transcript(st) ==
  LET text == Strip(Join(st.sentences)) IN
  IF text = <<>> THEN Strip(st.last_text) ELSE text

\* lines 180-181
RaiseASRFailed ==
  /\ pc = "post"
  /\ ShouldRaise(state)
  /\ pc' = "raised"
  /\ result' = [kind |-> "RuntimeError", at |-> "post", text |-> <<>>]
  /\ UNCHANGED <<state, stream, exc, handler, svc, device, calls, blocks, events, failed>>

\* lines 180, 183-186
ReturnTranscript ==
  /\ pc = "post"
  /\ ~ShouldRaise(state)
  /\ pc' = "returned"
  /\ result' = [kind |-> "transcript", at |-> "post", text |-> Transcript(state)]
  /\ UNCHANGED <<state, stream, exc, handler, svc, device, calls, blocks, events, failed>>

NextA ==
  \/ (on_open /\ UNCHANGED varsR)
  \/ (on_close /\ UNCHANGED varsR)
  \/ on_complete
  \/ (on_error /\ UNCHANGED varsR)
  \/ (\E r \in Results : on_event(r) /\ UNCHANGED varsR)
  \/ (signal_handler /\ UNCHANGED varsR)
  \/ (InstallHandler /\ UNCHANGED varsR)
  \/ (StartBegins /\ UNCHANGED varsR)
  \/ (StartReturns /\ UNCHANGED varsR)
  \/ (StartRaises /\ UNCHANGED varsR)
  \/ (LoopStopping /\ UNCHANGED varsR)
  \/ (LoopSleep /\ UNCHANGED varsR)
  \/ (SleepReturns /\ UNCHANGED varsR)
  \/ (LoopTakesStream /\ UNCHANGED varsR)
  \/ (ReadReturns /\ UNCHANGED varsR)
  \/ (ReadRaises /\ UNCHANGED varsR)
  \/ (ReadInterrupted /\ UNCHANGED varsR)
  \/ (SendReturns /\ UNCHANGED varsR)
  \/ (\E says_stopped \in BOOLEAN : SendRaises(says_stopped) /\ UNCHANGED varsR)
  \/ (CheckErrorBreaks /\ UNCHANGED varsR)
  \/ (CheckErrorContinues /\ UNCHANGED varsR)
  \/ (RestoreHandler /\ UNCHANGED varsR)
  \/ (StopRecognition /\ UNCHANGED varsR)
  \/ (RecognitionStopReturns /\ UNCHANGED varsR)
  \/ (RecognitionStopRaises /\ UNCHANGED varsR)
  \/ (PrintMetrics /\ UNCHANGED varsR)
  \/ (FinallyReraises /\ UNCHANGED varsR)
  \/ (FinallyFallsThrough /\ UNCHANGED varsR)
  \/ (RaiseASRFailed /\ UNCHANGED varsR)
  \/ (ReturnTranscript /\ UNCHANGED varsR)

Init == InitR /\ InitA

\* a request of ModelClient
Spec == Init /\ [][NextR]_vars

\* a session of RealtimeASRClient
SpecASR == Init /\ [][NextA]_vars

\* the steps of the main thread of transcribe_once
MainThread ==
  \/ InstallHandler \/ StartBegins \/ StartReturns \/ StartRaises
  \/ LoopStopping \/ LoopSleep \/ SleepReturns \/ LoopTakesStream
  \/ ReadReturns \/ ReadRaises \/ ReadInterrupted
  \/ SendReturns \/ (\E says_stopped \in BOOLEAN : SendRaises(says_stopped))
  \/ CheckErrorBreaks \/ CheckErrorContinues
  \/ RestoreHandler \/ StopRecognition \/ RecognitionStopReturns \/ RecognitionStopRaises
  \/ PrintMetrics \/ FinallyReraises \/ FinallyFallsThrough
  \/ RaiseASRFailed \/ ReturnTranscript

\* a session whose main thread keeps running: every call it makes returns or
\* raises; the service and the user are free to do nothing
SpecASRFair == Init /\ [][NextA]_vars /\ WF_vars(MainThread /\ UNCHANGED varsR)

(***************************************************************************)
(* The stream as seen by the claims.                                       *)
(***************************************************************************)
\* the content fragments of the chunks received, in order
RECURSIVE ContentFrags(_)
ContentFrags(cs) ==
  IF cs = <<>> THEN <<>>
  ELSE (IF Head(cs).choices # <<>> /\ Head(cs).choices[1].content.some
          THEN <<Head(cs).choices[1].content.text>> ELSE <<>>)
       \o ContentFrags(Tail(cs))

\* the non-empty reasoning fragments of the chunks received, in order
RECURSIVE ReasoningFrags(_)
ReasoningFrags(cs) ==
  IF cs = <<>> THEN <<>>
  ELSE (IF Head(cs).choices # <<>> /\ ReasoningPiece(Head(cs).choices[1]).text # <<>>
          THEN <<ReasoningPiece(Head(cs).choices[1]).text>> ELSE <<>>)
       \o ReasoningFrags(Tail(cs))

\* what request() returns when the whole string arrives as one content fragment
WholeResponse(s) ==
  MakeResponse(FinalFlush(ProcessDelta(InitLocals,
     [reasoning_content |-> None, reasoning |-> None, content |-> Some(s)], 1)), 1)

HasPrimaryMarker(s) == Contains(s, FinishMarker) \/ Contains(s, DoMarker)

W_thinking == <<"I", " ", "w", "i", "l", "l", " ", "c", "h", "e", "c", "k", " ", "t", "h", "e", " ", "w", "e", "a", "t", "h", "e", "r", ".">>
W_action == <<"d", "o", "(", "a", "c", "t", "i", "o", "n", "=", "o", "p", "e", "n", "_", "a", "p", "p", "(", "'", "W", "e", "a", "t", "h", "e", "r", "'", ")", ")">>

\* the content received so far, as one string
AllContent == Concat(ContentFrags(chunks))

\* the reasoning received so far, as one string
AllReasoning == Concat(ReasoningFrags(chunks))

\* the content fragments up to and including the i-th
ContentUpTo(i) == Concat(SubSeq(ContentFrags(chunks), 1, i))

\* the boundary after the i-th content fragment falls inside marker M, n characters
\* into it, M is completed by the next fragment and is the only primary marker
\* in the content up to there
BoundaryInsideMarker(i, M, n) ==
  LET pre == ContentUpTo(i)
      full == ContentUpTo(i + 1)
      k == Len(pre) - n
  IN /\ k >= 0
     /\ Len(full) >= k + Len(M)
     /\ SubSeq(full, k + 1, k + Len(M)) = M
     /\ Occurrences(full, FinishMarker) \cup Occurrences(full, DoMarker) = {k}

(***************************************************************************)
(* C1. No marker leakage: when a fragment boundary falls inside a primary  *)
(* marker, whatever text precedes the marker in the pending buffer, the    *)
(* text printed on the thinking stream stops before the marker: it never   *)
(* contains the marker's leading part.                                     *)
(***************************************************************************)
C1_NoMarkerLeak ==
  \A i \in 1..(Len(ContentFrags(chunks)) - 1) :
    \A m \in 1..Len(action_markers) :
      \A n \in 1..(Len(action_markers[m]) - 1) :
        BoundaryInsideMarker(i, action_markers[m], n)
          => Len(ThinkingText(req.stdout)) <= Len(ContentUpTo(i)) - n

(***************************************************************************)
(* C2. Fragmentation-invariance: with no reasoning fragments, the thinking *)
(* and action returned for a content with a primary marker are those       *)
(* returned when the whole content arrives as one fragment, and the        *)
(* weather example gives its stated thinking and action.                   *)
(***************************************************************************)
C2_FragmentationInvariance ==
  (pcR = "returned" /\ ReasoningFrags(chunks) = <<>>) =>
    /\ HasPrimaryMarker(AllContent) =>
         /\ response.thinking = WholeResponse(AllContent).thinking
         /\ response.action = WholeResponse(AllContent).action
    /\ ContentFrags(chunks) = <<P_w1, P_w2, P_w3>> =>
         /\ response.thinking = W_thinking
         /\ response.action = W_action

\* the weather example has been returned, cut in three fragments
C2_Witness ==
  /\ pcR = "returned"
  /\ ReasoningFrags(chunks) = <<>>
  /\ ContentFrags(chunks) = <<P_w1, P_w2, P_w3>>
  /\ response.action = W_action

(***************************************************************************)
(* C3. request() never fails: whatever the shape of the stream, it does    *)
(* not raise.                                                              *)
(***************************************************************************)
C3_NeverFails == pcR # "raised"

(***************************************************************************)
(* C4. raw_content is at every moment the in-order concatenation of the    *)
(* content fragments received so far, and so is the raw_content returned.  *)
(***************************************************************************)
C4_RawContentIsConcat ==
  /\ req.raw_content = AllContent
  /\ pcR = "returned" => response.raw_content = AllContent

\* content was received after the phase switch, and reasoning too
C4_Witness ==
  /\ pcR = "returned"
  /\ req.in_action_phase
  /\ Len(req.raw_content) > Len(req.buffer)
  /\ ReasoningFrags(chunks) # <<>>

(***************************************************************************)
(* C5 as claimed: whenever a non-empty reasoning fragment was received,    *)
(* the thinking returned is the concatenation of the reasoning fragments,  *)
(* trimmed, and the action is the one parsed from the content.             *)
(***************************************************************************)
C5_ReasoningOverrides_Claimed ==
  (pcR = "returned" /\ ReasoningFrags(chunks) # <<>>) =>
    /\ response.thinking = Strip(AllReasoning)
    /\ response.action = _parse_response(AllContent)[2]

(***************************************************************************)
(* C5 amended: whenever the concatenation of the reasoning fragments has a *)
(* non-whitespace character, the thinking returned is that concatenation,  *)
(* trimmed; the action is always the one parsed from the content.          *)
(***************************************************************************)
C5_ReasoningOverrides ==
  pcR = "returned" =>
    /\ Strip(AllReasoning) # <<>> => response.thinking = Strip(AllReasoning)
    /\ response.action = _parse_response(AllContent)[2]

\* reasoning replaced a different thinking parsed from a content with a marker
C5_Witness ==
  /\ pcR = "returned"
  /\ Strip(AllReasoning) # <<>>
  /\ HasPrimaryMarker(AllContent)
  /\ _parse_response(AllContent)[1] # <<>>
  /\ response.thinking # _parse_response(AllContent)[1]

(***************************************************************************)
(* C6. Stop is idempotent: the stopped flag never reverts, and             *)
(* recognition.stop(), the metrics line, and the release of the stream and *)
(* of the microphone each run at most once in a session, however often     *)
(* on_close is delivered.                                                  *)
(***************************************************************************)
C6_StopIdempotent ==
  /\ [](/\ calls.stop <= 1
        /\ calls.metrics <= 1
        /\ device.stream_released <= 1
        /\ device.mic_terminated <= 1)
  /\ [][state.stopped => state'.stopped]_vars

\* the device was released, on_close ran again, and the session stopped and returned
C6_Witness ==
  /\ pc = "returned"
  /\ state.stopped
  /\ calls.stop = 1
  /\ calls.metrics = 1
  /\ device.closes = 2
  /\ device.stream_released = 1
  /\ device.mic_terminated = 1

(***************************************************************************)
(* C7. Stop is a guaranteed finalizer: whenever transcribe_once returns,   *)
(* or raises after it entered the drive loop, _stop_recognition has run    *)
(* and stopped is true.                                                    *)
(***************************************************************************)
C7_StopIsFinalizer ==
  /\ pc = "returned" => (state.stopped /\ calls.stop = 1)
  /\ (pc = "raised" /\ result.at # "start") => (state.stopped /\ calls.stop = 1)

\* an exception of the first read went through the finally clause: stop ran
\* completely, then the exception reached the caller
C7_Witness ==
  /\ pc = "raised"
  /\ result.at = "finally"
  /\ blocks = 0
  /\ ~state.stopping
  /\ calls.metrics = 1
  /\ state.stopped

(***************************************************************************)
(* C8. The SIGINT handler installed before the session is installed again  *)
(* whenever transcribe_once has exited after installing its own handler.   *)
(***************************************************************************)
C8_HandlerRestored ==
  pc \in {"returned", "raised"} => handler = "previous_handler"

(***************************************************************************)
(* C9. The transcript returned is the trimmed texts of the sentence-end    *)
(* results with non-empty trimmed text, in delivery order, joined by       *)
(* single spaces; without such a result it is the last non-empty trimmed   *)
(* text delivered, or the empty string.                                    *)
(***************************************************************************)
RECURSIVE FinalTexts(_)
FinalTexts(evs) ==
  IF evs = <<>> THEN <<>>
  ELSE (IF Head(evs).has_text /\ Head(evs).sentence_end /\ Strip(Head(evs).text) # <<>>
          THEN <<Strip(Head(evs).text)>> ELSE <<>>)
       \o FinalTexts(Tail(evs))

RECURSIVE LastPartialText(_)
LastPartialText(evs) ==
  IF evs = <<>> THEN <<>>
  ELSE IF evs[Len(evs)].has_text /\ Strip(evs[Len(evs)].text) # <<>>
    THEN Strip(evs[Len(evs)].text)
  ELSE LastPartialText(SubSeq(evs, 1, Len(evs) - 1))

C9_TranscriptOfEvents ==
  pc = "returned" =>
    result.text = IF FinalTexts(events) # <<>>
                    THEN Join(FinalTexts(events))
                    ELSE LastPartialText(events)

\* two different sentences were finalized and the transcript returned
C9_Witness ==
  /\ pc = "returned"
  /\ Len(FinalTexts(events)) = 2
  /\ FinalTexts(events)[1] # FinalTexts(events)[2]
  /\ result.text = Join(FinalTexts(events))

(***************************************************************************)
(* C10. A transcript is returned only when no error was recorded; with an  *)
(* error recorded the check after teardown raises the recognition error,   *)
(* also when there is no finalized and no partial text.                    *)
(***************************************************************************)
C10_NoTranscriptAfterError ==
  /\ pc = "returned" => state.error = NoError
  /\ (pc = "raised" /\ result.at = "post") =>
       (state.error # NoError /\ result.kind = "RuntimeError")
  /\ (pc \in {"returned", "raised"} /\ state.error # NoError
        /\ state.sentences = <<>> /\ state.last_text = <<>>) => pc = "raised"

\* an error was recorded, no text exists, and the recognition error was raised
C10_Witness ==
  /\ pc = "raised"
  /\ result.kind = "RuntimeError"
  /\ state.error # NoError
  /\ state.sentences = <<>>
  /\ state.last_text = <<>>

W_tap_thinking == <<"o", "k">>
W_tap_action == <<"t", "a", "p", "(", "x", "=", "1", "0", ",", "y", "=", "2", "0", ")">>

(***************************************************************************)
(* C11. Without a primary marker in the raw content (and without reasoning *)
(* text), the response is split at the first '<answer>': thinking is the   *)
(* text before it without '<think>' and '</think>', trimmed, action the    *)
(* text after it without '</answer>', trimmed; the tagged example gives    *)
(* "ok" and "tap(x=10,y=20)". Without any marker thinking is empty and     *)
(* action is the raw content unchanged.                                    *)
(***************************************************************************)
C11_SecondaryForm ==
  (pcR = "returned" /\ ~HasPrimaryMarker(AllContent) /\ Strip(AllReasoning) = <<>>) =>
    /\ Contains(AllContent, AnswerTag) =>
         /\ response.thinking =
              Strip(Remove(Remove(SplitBefore(AllContent, AnswerTag), ThinkTag), ThinkEndTag))
         /\ response.action = Strip(Remove(SplitAfter(AllContent, AnswerTag), AnswerEndTag))
    /\ ContentFrags(chunks) = <<P_tap>> =>
         /\ response.thinking = W_tap_thinking
         /\ response.action = W_tap_action
    /\ ~Contains(AllContent, AnswerTag) =>
         /\ response.thinking = <<>>
         /\ response.action = AllContent

\* the tagged example has been returned
C11_Witness ==
  /\ pcR = "returned"
  /\ ContentFrags(chunks) = <<P_tap>>
  /\ ReasoningFrags(chunks) = <<>>
  /\ response.action = W_tap_action

\* the lowest offset at which a primary marker starts in s
LowestMarkerOffset(s) ==
  LET offs == Occurrences(s, FinishMarker) \cup Occurrences(s, DoMarker)
  IN CHOOSE i \in offs : \A j \in offs : i <= j

(***************************************************************************)
(* C13. Marker tie-break: with primary markers in the content, the final   *)
(* split is at the marker occurrence of lowest offset, and neither the     *)
(* text printed on the thinking stream before the phase switch nor the     *)
(* thinking returned contains a complete primary marker.                   *)
(***************************************************************************)
C13_LowestOffsetWins ==
  /\ req.in_action_phase => ~HasPrimaryMarker(ThinkingText(req.stdout))
  /\ (pcR = "returned" /\ HasPrimaryMarker(AllContent)) =>
       /\ response.action =
            SubSeq(AllContent, LowestMarkerOffset(AllContent) + 1, Len(AllContent))
       /\ Strip(AllReasoning) = <<>> =>
            /\ response.thinking =
                 Strip(SubSeq(AllContent, 1, LowestMarkerOffset(AllContent)))
            /\ ~HasPrimaryMarker(response.thinking)

(***************************************************************************)
(* C19. The phase is forward-only: in_action_phase starts false and never  *)
(* reverts, time_to_thinking_end is set exactly at the switch and never    *)
(* again, and in the action phase a step only appends content fragments to *)
(* raw_content: the buffer is left alone and nothing more is printed on    *)
(* the thinking stream, also at the end of the stream.                     *)
(***************************************************************************)
C19_PhaseForwardOnly ==
  /\ ~req.in_action_phase
  /\ [](req.in_action_phase <=> req.time_to_thinking_end # NoTime)
  /\ [][req.in_action_phase =>
          /\ req'.in_action_phase
          /\ req'.time_to_thinking_end = req.time_to_thinking_end
          /\ req'.buffer = req.buffer
          /\ ThinkingText(req'.stdout) = ThinkingText(req.stdout)
          /\ req'.raw_content = Concat(ContentFrags(chunks'))]_vars

\* content arrived after the phase switch and the response was returned
C19_Witness ==
  /\ pcR = "returned"
  /\ req.in_action_phase
  /\ response.time_to_thinking_end # NoTime
  /\ response.time_to_thinking_end < response.total_time
  /\ Len(response.raw_content) > Len(req.buffer)

\* the marker at which _parse_response splits a content with a primary marker
ParseMarker(s) == IF Contains(s, FinishMarker) THEN FinishMarker ELSE DoMarker

(***************************************************************************)
(* C20. At the end of the stream the streaming phase agrees with the final *)
(* split: in_action_phase is true, and time_to_thinking_end set, exactly   *)
(* when the raw content contains a primary marker, and then the text       *)
(* printed on the thinking stream is the raw content before the marker at  *)
(* which _parse_response split.                                            *)
(***************************************************************************)
C20_PhaseAgreesWithSplit ==
  pcR \in {"finalized", "returned"} =>
    /\ req.in_action_phase <=> HasPrimaryMarker(req.raw_content)
    /\ req.time_to_thinking_end # NoTime <=> HasPrimaryMarker(req.raw_content)
    /\ HasPrimaryMarker(req.raw_content) =>
         ThinkingText(req.stdout) = SplitBefore(req.raw_content, ParseMarker(req.raw_content))

\* the main thread is in the drive loop (lines 159-173)
InDriveLoop == pc \in {"loop", "sleep", "read", "send", "check"}

(***************************************************************************)
(* C12. Once on_error has recorded an error while the main thread is in    *)
(* the drive loop, the loop eventually ends and _stop_recognition runs,    *)
(* without any SIGINT, also when state["stream"] is None.                  *)
(***************************************************************************)
C12_ErrorEndsLoop ==
  (InDriveLoop /\ state.error # NoError) ~> state.stopped

(***************************************************************************)
(* C15. Cooperative cancellation: when the loop polls the flag with        *)
(* stopping set it does not go on to a read or a sleep, and once stopping  *)
(* is set while the main thread is in the drive loop, with the device open *)
(* or not, the session reaches stopped.                                    *)
(***************************************************************************)
C15_CancellationTerminates ==
  /\ [][(pc = "loop" /\ state.stopping) => pc' \in {"loop", "finally"}]_vars
  /\ (InDriveLoop /\ state.stopping) ~> state.stopped

\* the session was cancelled while polling for the device and has returned
C15_Witness ==
  /\ pc = "returned"
  /\ state.stopping
  /\ state.stopped
  /\ ~device.opened
  /\ blocks = 0
  /\ failed.op = "none"

\* transcribe_once has returned or raised
Exited == pc \in {"returned", "raised"}

\* the drive loop ended on a send failure whose message has "stopped" in it,
\* with a stop pending
BenignSendFailure == failed.op = "send" /\ failed.stop_pending /\ failed.says_stopped

(***************************************************************************)
(* C14 as claimed: after a read or send failure with a stop pending (no    *)
(* error recorded, recognition.stop() returning) transcribe_once returns   *)
(* the transcript; after one with no stop pending it raises, stopped.      *)
(***************************************************************************)
C14_BenignWhenStopPending_Claimed ==
  /\ (Exited /\ failed.op # "none" /\ failed.stop_pending
        /\ state.error = NoError /\ calls.metrics = 1) => pc = "returned"
  /\ (Exited /\ failed.op # "none" /\ ~failed.stop_pending) =>
        (pc = "raised" /\ state.stopped)

(***************************************************************************)
(* C14 amended: only a send failure whose message contains "stopped",      *)
(* with a stop pending, ends the loop without being raised: then           *)
(* transcribe_once returns the transcript exactly when no error was        *)
(* recorded and recognition.stop() returned. Every read failure and every  *)
(* other send failure is raised to the caller after stop has run, unless   *)
(* recognition.stop() raises, whose exception is then the one raised.      *)
(***************************************************************************)
C14_BenignSendOnly ==
  /\ (Exited /\ BenignSendFailure) =>
       /\ result.kind \in {"transcript", "RuntimeError", "StopError"}
       /\ result.kind = "transcript" <=> (state.error = NoError /\ calls.metrics = 1)
  /\ (Exited /\ failed.op # "none" /\ ~BenignSendFailure) =>
       /\ pc = "raised"
       /\ state.stopped
       /\ result.kind = IF calls.metrics = 0 THEN "StopError"
                        ELSE IF failed.op = "read" THEN "ReadError" ELSE "SendError"

\* a send failed with "stopped" while a stop was pending and the transcript was returned
C14_Witness ==
  /\ pc = "returned"
  /\ BenignSendFailure
  /\ result.kind = "transcript"

(***************************************************************************)
(* C16. Accesses to the device handles behave as if serialized: the loop   *)
(* never issues stream.read on a stream on_close has released, an opened   *)
(* device that was not released is referenced by the state, and no device  *)
(* is released twice.                                                      *)
(***************************************************************************)
C16_HandleAccessSerialized ==
  /\ pc = "read" => (stream /\ device.stream_released = 0)
  /\ (device.opened /\ device.stream_released = 0) => (state.stream /\ state.mic)
  /\ device.stream_released <= 1 /\ device.mic_terminated <= 1

(***************************************************************************)
(* C17. When recognition.start() raises, the session is stopped and every  *)
(* resource acquired so far is released before the error reaches the       *)
(* caller: stopped is true, the SIGINT handler is the previous one, and a  *)
(* device opened by on_open has been released.                             *)
(***************************************************************************)
C17_StartFailureReleases ==
  (pc = "raised" /\ result.at = "start") =>
    /\ state.stopped
    /\ handler = "previous_handler"
    /\ ~state.stream /\ ~state.mic
    /\ device.opened => (device.stream_released = 1 /\ device.mic_terminated = 1)

(***************************************************************************)
(* C18. Once _stop_recognition has completed on a session that was not     *)
(* stopped, state["stream"] and state["mic"] are None and an opened device *)
(* has been released, whether the service delivered a close callback or    *)
(* not.                                                                    *)
(***************************************************************************)
C18_StopReleasesDevice ==
  calls.metrics = 1 =>
    /\ ~state.stream /\ ~state.mic
    /\ device.opened => (device.stream_released = 1 /\ device.mic_terminated = 1)

====
